---------------------------- MODULE Spec2Model ----------------------------
(***************************************************************************)
(* A model of the Map component of the webmapping tutorial                 *)
(* (src/src/components/map/Map.jsx) and of its two earlier versions        *)
(* (src/unnamed/part_000): the GeoJSON loaders, the coordinate             *)
(* reprojector, the feature classifiers, the style resolvers, the          *)
(* per-feature interaction handlers and the legend effect.                 *)
(*                                                                         *)
(* JavaScript values are records [t, n, s, a]: t is the runtime type tag,  *)
(* n the value of a number, s the value of a string and a the elements of  *)
(* an array.  Objects with a fixed shape (feature, geometry, property bag, *)
(* style, legend entry) are records with t = "object".                     *)
(***************************************************************************)
EXTENDS Integers, Sequences, FiniteSets, TLC

VARIABLES
    \* ---- component state (useState / useRef) ----
    version,         \* which version of the component is mounted
    phase,           \* "unmounted" | "mounted"
    geoData,         \* useState(null): the cluster FeatureCollection
    geologicalData,  \* useState(null): the reprojected geological FeatureCollection
    activeLayer,     \* useState("clusters")
    mapRef,          \* mapRef.current is set (the Leaflet map instance)
    \* ---- the two fetch promises ----
    fetchState,      \* per document: "idle" | "pending" | "loaded" | "failed"
    fetchCount,      \* per document: number of fetch() calls issued
    parsed,          \* per document: the body res.json() produced (Undefined before)
    errorLog,        \* console.error messages, in order
    \* ---- the Leaflet map widget ----
    controls,        \* legend controls attached to the map: set of [id, title, entries]
    legendCleanup,   \* id of the control the legend effect's cleanup removes, 0 if none
    legendSawMap,    \* the legend effect has run with mapRef.current set (history)
    layerKey,        \* key of the mounted <GeoJSON>: "none" | "clusters" | "geological"
    layerStyle,      \* style (path options) of each rendered feature
    hover,           \* index of the feature under the pointer, 0 if none
    viewport,        \* last fitBounds call: [target, padding], target 0 = initial view
    \* ---- inputs and results of the pure functions ----
    pc,              \* "input" | "done" for the pure-function specifications
    inFeature,       \* a feature handed to the classifiers and style resolvers
    outStyle,        \* [clusters |-> geojsonColors(f), geological |-> geologicalLayerColors(f)]
    outClass,        \* results of the four classifiers
    inCoords,        \* a coordinate structure handed to transformCoordinates
    outCoords        \* its result

vars == << version, phase, geoData, geologicalData, activeLayer, mapRef,
           fetchState, fetchCount, parsed, errorLog,
           controls, legendCleanup, legendSawMap, layerKey, layerStyle, hover, viewport,
           pc, inFeature, outStyle, outClass, inCoords, outCoords >>

compVars == << version, phase, geoData, geologicalData, activeLayer, mapRef,
               fetchState, fetchCount, parsed, errorLog,
               controls, legendCleanup, legendSawMap, layerKey, layerStyle, hover, viewport >>

pureVars == << pc, inFeature, outStyle, outClass, inCoords, outCoords >>

-----------------------------------------------------------------------------
(* Bounds of the model *)

\* features per fetched document
MaxFeatures == 2
\* milestone numbers range over 0..MaxMilestone (the table knows 0..3)
MaxMilestone == 4
\* children per coordinate array
MaxKids == 2
\* positions per coordinate structure
MaxPairs == 4
\* fetch() calls per document after which the model stops issuing more
MaxFetches == 3

-----------------------------------------------------------------------------
(* JavaScript values *)

Undefined == [t |-> "undefined", n |-> 0, s |-> "", a |-> <<>>]
Null == [t |-> "null", n |-> 0, s |-> "", a |-> <<>>]
NaN == [t |-> "NaN", n |-> 0, s |-> "", a |-> <<>>]
Num(k) == [t |-> "number", n |-> k, s |-> "", a |-> <<>>]
Str(x) == [t |-> "string", n |-> 0, s |-> x, a |-> <<>>]
Arr(xs) == [t |-> "array", n |-> 0, s |-> "", a |-> xs]

\* typeof v === 'number'
IsNumber(v) == v.t \in {"number", "NaN"}

\* ToBoolean
Truthy(v) ==
    CASE v.t \in {"undefined", "null", "NaN"} -> FALSE
      [] v.t = "number" -> v.n # 0
      [] v.t = "string" -> v.s # ""
      [] OTHER -> TRUE

\* a || b
Or(a, b) == IF Truthy(a) THEN a ELSE b

\* a ?? b
Coalesce(a, b) == IF a.t \in {"undefined", "null"} THEN b ELSE a

\* the strings of the model that are numeric literals, with their values
NumericLiteral == ("" :> 0) @@ ("0" :> 0) @@ ("1" :> 1) @@ ("2" :> 2) @@ ("3" :> 3) @@ ("4" :> 4) @@ ("5" :> 5)

\* Number(v)
ToNumber(v) ==
    CASE v.t = "number" -> v
      [] v.t = "NaN" -> NaN
      [] v.t = "null" -> Num(0)
      [] v.t = "string" ->
            IF v.s \in DOMAIN NumericLiteral THEN Num(NumericLiteral[v.s]) ELSE NaN
      [] OTHER -> NaN

\* v[i] for a zero-based index i (property access on undefined or null throws:
\* callers test CanIndex first)
CanIndex(v) == v.t \notin {"undefined", "null", "throw"}
Index(v, i) ==
    IF v.t = "array" /\ i + 1 <= Len(v.a) THEN v.a[i + 1] ELSE Undefined

\* the result of an expression that threw
Throw == [t |-> "throw", n |-> 0, s |-> "", a |-> <<>>]

-----------------------------------------------------------------------------
(* The StyleRule tables.  A table is the sequence of its entries in the     *)
(* order Object.values enumerates them: integer keys ascending, then string *)
(* keys in insertion order.  key is the property name (a string).           *)

Entry(k, l, c) == [key |-> k, label |-> l, color |-> c]

milestoneColors ==
    << Entry("0", "Unopened", "#BCCFB4"),
       Entry("1", "Milestone 1", "#69A761"),
       Entry("2", "Milestone 2", "#27823B"),
       Entry("3", "Milestone 3", "#09622A") >>

geologicalColors ==
    << Entry("MC", "Metamorphic complex", "#E63946"),
       Entry("GR", "Granite", "#F77F00"),
       Entry("SED", "Sedimentary", "#FCBF49"),
       Entry("VOL", "Volcanic", "#06A77D"),
       Entry("default", "Other", "#118AB2") >>

\* ToString of a value used as a property key (the values of the model)
NumeralOf == (0 :> "0") @@ (1 :> "1") @@ (2 :> "2") @@ (3 :> "3") @@ (4 :> "4") @@ (5 :> "5")
PropertyKey(v) ==
    CASE v.t = "string" -> v.s
      [] v.t = "number" -> IF v.n \in DOMAIN NumeralOf THEN NumeralOf[v.n] ELSE "(number)"
      [] OTHER -> v.t

\* table[v]?.color : the colour of the entry under key v, Undefined when the
\* table has no such own key (an inherited Object.prototype member has no color)
HasKey(table, v) == \E i \in 1..Len(table) : table[i].key = PropertyKey(v)
EntryOf(table, v) == table[CHOOSE i \in 1..Len(table) : table[i].key = PropertyKey(v)]
ColorOf(table, v) == IF HasKey(table, v) THEN Str(EntryOf(table, v).color) ELSE Undefined
LabelOf(table, v) == IF HasKey(table, v) THEN Str(EntryOf(table, v).label) ELSE Undefined

-----------------------------------------------------------------------------
(* Features.  A feature is Null, Undefined or an object with a properties   *)
(* bag and a geometry; an absent member is Undefined.  A properties bag is  *)
(* an object holding a JavaScript value (Undefined when the key is absent)  *)
(* under each key the classifiers read.                                     *)

Bag(cluster, clName, milestone, lithcode, unit) ==
    [t |-> "object", Cluster |-> cluster, clName |-> clName,
     Milestone |-> milestone, LITHCODE |-> lithcode, UNIT |-> unit]
EmptyBag == Bag(Undefined, Undefined, Undefined, Undefined, Undefined)

Geometry(type, coordinates) == [t |-> "object", type |-> type, coordinates |-> coordinates]
Feature(properties, geometry) == [t |-> "object", properties |-> properties, geometry |-> geometry]

\* feature?.properties
PropertiesOf(feature) ==
    IF feature.t \in {"undefined", "null"} THEN Undefined ELSE feature.properties

\* getProps: feature?.properties || {}
getProps(feature) ==
    IF Truthy(PropertiesOf(feature)) THEN PropertiesOf(feature) ELSE EmptyBag

\* getClusterName without the alternate key
getClusterNameCanonicalOnly(feature) ==
    LET props == getProps(feature)
    IN  Or(props.Cluster, Str("Unknown"))

\* props.Cluster || props[" cl name"] || "Unknown"
getClusterName(feature) ==
    LET props == getProps(feature)
    IN  Or(Or(props.Cluster, props.clName), Str("Unknown"))

\* Number(props.Milestone ?? 0)
getMilestone(feature) ==
    LET props == getProps(feature)
    IN  ToNumber(Coalesce(props.Milestone, Num(0)))

\* props.LITHCODE || "default"
getLithCode(feature) ==
    LET props == getProps(feature)
    IN  Or(props.LITHCODE, Str("default"))

\* props.UNIT || "Unknown"
getGeologicalUnit(feature) ==
    LET props == getProps(feature)
    IN  Or(props.UNIT, Str("Unknown"))

\* a Leaflet path style
Style(color, fillColor, weight, fillOpacity) ==
    [color |-> color, fillColor |-> fillColor, weight |-> weight, fillOpacity |-> fillOpacity]

\* the cluster resolver with no fallback colour
geojsonColorsNoFallback(feature) ==
    LET milestone == getMilestone(feature)
    IN  Style("#000", ColorOf(milestoneColors, milestone), 2, 7)

\* fill opacities are kept in tenths: 7 is 0.7
geojsonColors(feature) ==
    LET milestone == getMilestone(feature)
    IN  Style("#000", Or(ColorOf(milestoneColors, milestone), Str("#374151")), 2, 7)

\* the geological resolver falling back to the gray of the cluster resolver
geologicalLayerColorsGray(feature) ==
    LET lithCode == getLithCode(feature)
    IN  Style("#000", Or(ColorOf(geologicalColors, lithCode), Str("#374151")), 2, 7)

geologicalLayerColors(feature) ==
    LET lithCode == getLithCode(feature)
    IN  Style("#000",
              Or(ColorOf(geologicalColors, lithCode), ColorOf(geologicalColors, Str("default"))),
              2, 7)

\* the second version of the component (part_000): no "#" and an opaque fill
geojsonColorsV2(feature) ==
    LET milestone == getMilestone(feature)
    IN  Style("#000", Or(ColorOf(milestoneColors, milestone), Str("374151")), 2, 10)

-----------------------------------------------------------------------------
(* The coordinate reprojector *)

\* proj4("EPSG:32733", "EPSG:4326", [x, y]): the inverse UTM 33S projection.
\* The library is not part of the repository; the model keeps what the
\* reprojector relies on: a fixed function of the one pair, which is not the
\* identity and maps distinct pairs to distinct pairs (false easting and
\* false northing removed, in model units).
FalseEasting == 5
FalseNorthing == 10
proj4(coords) ==
    << IF Index(coords, 0).t = "number"
          THEN Num(Index(coords, 0).n - FalseEasting) ELSE NaN,
       IF Index(coords, 1).t = "number"
          THEN Num(Index(coords, 1).n - FalseNorthing) ELSE NaN >>

\* transformCoordinates: Throw when coords is not an array and has no number
\* first (coords.map is not a function / cannot read properties of undefined)
RECURSIVE transformCoordinates(_)

\* transformCoordinates reassembling the children in reverse order
transformCoordinatesReversed(coords) ==
    IF ~CanIndex(coords) THEN Throw
    ELSE IF IsNumber(Index(coords, 0))
         THEN LET p == proj4(coords) IN Arr(<< p[1], p[2] >>)
    ELSE IF coords.t # "array" THEN Throw
    ELSE LET kids == [i \in 1..Len(coords.a) |->
                         transformCoordinates(coords.a[Len(coords.a) + 1 - i])]
         IN  IF \E i \in 1..Len(coords.a) : kids[i].t = "throw" THEN Throw ELSE Arr(kids)

transformCoordinates(coords) ==
    IF ~CanIndex(coords) THEN Throw
    ELSE IF IsNumber(Index(coords, 0))
         THEN LET p == proj4(coords) IN Arr(<< p[1], p[2] >>)
    ELSE IF coords.t # "array" THEN Throw
    ELSE LET kids == [i \in 1..Len(coords.a) |-> transformCoordinates(coords.a[i])]
         IN  IF \E i \in 1..Len(coords.a) : kids[i].t = "throw" THEN Throw ELSE Arr(kids)

\* one feature of transformGeoJSON's forEach: Throw when reading
\* feature.geometry throws or transformCoordinates throws
TransformFeature(feature) ==
    IF ~CanIndex(feature) THEN Throw
    ELSE IF Truthy(feature.geometry) /\ Truthy(feature.geometry.coordinates)
         THEN LET c == transformCoordinates(feature.geometry.coordinates)
              IN  IF c.t = "throw" THEN Throw
                  ELSE [feature EXCEPT !.geometry.coordinates = c]
    ELSE feature

\* a FeatureCollection document: [t |-> "object", features |-> Arr or Undefined]
Collection(features) == [t |-> "object", features |-> features]

\* transformGeoJSON: deep clone, then reproject every feature that has
\* geometry.coordinates
transformGeoJSON(geojson) ==
    IF ~Truthy(geojson.features) THEN geojson
    ELSE IF geojson.features.t # "array" THEN Throw
    ELSE LET fs == [i \in 1..Len(geojson.features.a) |-> TransformFeature(geojson.features.a[i])]
         IN  IF \E i \in 1..Len(fs) : fs[i].t = "throw" THEN Throw
             ELSE Collection(Arr(fs))

-----------------------------------------------------------------------------
(* The component: versions, documents, the legend effect, rendering *)

MapJsx == "Map.jsx"
SecondVersion == "part_000 second version"
FirstVersion == "part_000 first version"

Docs == {"centralwest", "geological"}

\* Map.jsx passes [] to its fetch effects, which run after the first render
\* only; the earlier versions pass no dependency array, and the effect runs
\* after every render
FetchEffectHasDeps(v) == v = MapJsx

\* the versions that have a legend effect
HasLegend(v) == v \in {MapJsx, SecondVersion}

\* the versions that pass onEachFeature
HasHandlers(v) == v \in {MapJsx, SecondVersion}

\* console.error's first argument in the catch of each fetch
FailureMessage(v, doc) ==
    IF v = MapJsx
    THEN IF doc = "centralwest" THEN "Failed to load centralwest GeoJSON"
                                ELSE "Failed to load geological GeoJSON"
    ELSE "Failed to load GeoJSON"

\* legend.onAdd: the title and one entry per value of the table of the
\* active layer (the second version knows the milestones only)
LegendEntries(table) == [i \in 1..Len(table) |-> [color |-> table[i].color, label |-> table[i].label]]
LegendOnAdd(v, al) ==
    IF v = MapJsx /\ al # "clusters"
    THEN [title |-> "Geology", entries |-> LegendEntries(geologicalColors)]
    ELSE [title |-> "Milestones", entries |-> LegendEntries(milestoneColors)]

\* L.control(...): a new control object, told apart by an id no attached
\* control has
FreshId(ctrls) ==
    CHOOSE i \in 1..(Cardinality(ctrls) + 1) : \A c \in ctrls : c.id # i

\* legend.addTo(mapRef.current)
AddControl(ctrls, id, content) ==
    ctrls \cup {[id |-> id, title |-> content.title, entries |-> content.entries]}

\* a cleanup that leaves the control on the map
RemoveControlNoop(ctrls, id) == ctrls

\* the cleanup the legend effect returned: legend.remove()
RemoveControl(ctrls, id) == {c \in ctrls : c.id # id}

\* the legend effect of a render with active layer al: the previous run's
\* cleanup first, then the effect body
LegendEffect(al) ==
    LET cleaned == IF legendCleanup = 0 THEN controls
                   ELSE RemoveControl(controls, legendCleanup)
    IN  IF ~HasLegend(version)
        THEN UNCHANGED << controls, legendCleanup, legendSawMap >>
        ELSE IF ~mapRef
        THEN /\ controls' = cleaned
             /\ legendCleanup' = 0
             /\ UNCHANGED legendSawMap
        ELSE /\ controls' = AddControl(cleaned, FreshId(cleaned), LegendOnAdd(version, al))
             /\ legendCleanup' = FreshId(cleaned)
             /\ legendSawMap' = TRUE

\* the <GeoJSON> element the render returns, mounted once MapContainer has
\* its map: its key, "none" when no element is rendered
RenderedKey(v, al, gd, gld, ref) ==
    IF ~ref THEN "none"
    ELSE IF v = MapJsx
    THEN IF al = "clusters" /\ Truthy(gd) THEN "clusters"
         ELSE IF al = "geological" /\ Truthy(gld) THEN "geological"
         ELSE "none"
    ELSE IF Truthy(gd) THEN "clusters" ELSE "none"

\* the features of the rendered layer
LayerFeatures(key, gd, gld) ==
    LET data == IF key = "clusters" THEN gd ELSE IF key = "geological" THEN gld ELSE Null
    IN  IF Truthy(data) /\ Truthy(data.features) /\ data.features.t = "array"
        THEN data.features.a ELSE << >>

\* Leaflet's default path options, for a <GeoJSON> without a style prop
DefaultPathStyle == Style("#3388ff", Null, 3, 2)

\* the style prop of the rendered <GeoJSON>, applied to a feature
StyleResolver(v, key, feature) ==
    IF v = FirstVersion THEN DefaultPathStyle
    ELSE IF v = SecondVersion THEN geojsonColorsV2(feature)
    ELSE IF key = "geological" THEN geologicalLayerColors(feature)
    ELSE geojsonColors(feature)

\* mounting or unmounting the <GeoJSON> element after a render: a layer
\* that stays mounted keeps its path options
CommitLayer(al, gd, gld, ref) ==
    LET key == RenderedKey(version, al, gd, gld, ref)
        fs == LayerFeatures(key, gd, gld)
    IN  IF key = layerKey
        THEN UNCHANGED << layerKey, layerStyle, hover >>
        ELSE /\ layerKey' = key
             /\ layerStyle' = [i \in 1..Len(fs) |-> StyleResolver(version, key, fs[i])]
             /\ hover' = 0

-----------------------------------------------------------------------------
(* The documents the two static files may hold *)

SeqsUpTo(S, n) == UNION {[1..k -> S] : k \in 0..n}

Pt(x, y) == Arr(<< Num(x), Num(y) >>)
RingCoords == Arr(<< Pt(5, 10), Pt(6, 10), Pt(6, 12), Pt(5, 10) >>)
PolygonCoords == Arr(<< RingCoords >>)
MultiPolygonCoords == Arr(<< PolygonCoords, Arr(<< Arr(<< Pt(7, 13), Pt(8, 13), Pt(7, 13) >>) >>) >>)

ClusterFeatures ==
    { Feature(Bag(Str("Kakamega"), Undefined, Num(1), Undefined, Undefined), Undefined),
      Feature(Bag(Undefined, Str("Vihiga"), Num(MaxMilestone), Undefined, Undefined), Undefined),
      Feature(Undefined, Undefined) }

GeologicalFeatures ==
    { Feature(Bag(Undefined, Undefined, Undefined, Str("MC"), Str("Basement")), Undefined),
      Feature(Bag(Undefined, Undefined, Undefined, Undefined, Undefined),
              Geometry(Str("Polygon"), Undefined)),
      Feature(Bag(Undefined, Undefined, Undefined, Str("XYZ"), Undefined),
              Geometry(Str("Polygon"), PolygonCoords)),
      Feature(Bag(Undefined, Undefined, Undefined, Str("GR"), Str("Pluton")),
              Geometry(Str("MultiPolygon"), MultiPolygonCoords)) }

\* the bodies res.json() may produce for each document
Bodies(doc) ==
    IF doc = "centralwest"
    THEN {Collection(Arr(fs)) : fs \in SeqsUpTo(ClusterFeatures, MaxFeatures)}
    ELSE {Collection(Arr(fs)) : fs \in SeqsUpTo(GeologicalFeatures, MaxFeatures)}
         \cup {Collection(Undefined)}

-----------------------------------------------------------------------------
(* The geological fetch's second .then handler *)

\* data.features[0].geometry.coordinates[0][0][0].slice(0, 2), Throw when a
\* member is read of undefined or null or slice is not a function
CoordinateSample(data) ==
    IF ~CanIndex(data.features) THEN Throw
    ELSE LET f0 == Index(data.features, 0)
         IN  IF ~CanIndex(f0) THEN Throw
             ELSE IF ~CanIndex(f0.geometry) THEN Throw
             ELSE IF ~CanIndex(f0.geometry.coordinates) THEN Throw
             ELSE LET c0 == Index(f0.geometry.coordinates, 0)
                  IN  IF ~CanIndex(c0) THEN Throw
                      ELSE IF ~CanIndex(Index(c0, 0)) THEN Throw
                      ELSE LET c000 == Index(Index(c0, 0), 0)
                           IN  IF c000.t # "array" THEN Throw
                               ELSE Arr(SubSeq(c000.a, 1, IF Len(c000.a) < 2 THEN Len(c000.a) ELSE 2))

\* the handler: log a sample, transform, log a sample, and the value handed
\* to setGeologicalData; Throw when a statement threw (the catch then runs)
GeologicalHandler(data) ==
    IF CoordinateSample(data).t = "throw" THEN Throw
    ELSE LET transformedData == transformGeoJSON(data)
         IN  IF transformedData.t = "throw" THEN Throw
             ELSE IF CoordinateSample(transformedData).t = "throw" THEN Throw
             ELSE transformedData

-----------------------------------------------------------------------------
(* Initial states *)

PureIdle ==
    /\ pc = "off"
    /\ inFeature = Undefined
    /\ outStyle = Undefined
    /\ outClass = Undefined
    /\ inCoords = Undefined
    /\ outCoords = Undefined

Unmounted ==
    /\ phase = "unmounted"
    /\ geoData = Null
    /\ geologicalData = Null
    /\ activeLayer = "clusters"
    /\ mapRef = FALSE
    /\ fetchState = [d \in Docs |-> "idle"]
    /\ fetchCount = [d \in Docs |-> 0]
    /\ parsed = [d \in Docs |-> Undefined]
    /\ errorLog = << >>
    /\ controls = {}
    /\ legendCleanup = 0
    /\ legendSawMap = FALSE
    /\ layerKey = "none"
    /\ layerStyle = << >>
    /\ hover = 0
    /\ viewport = [target |-> 0, padding |-> << 0, 0 >>]

Init ==
    /\ version = MapJsx
    /\ Unmounted
    /\ PureIdle

-----------------------------------------------------------------------------
(* Actions of the component *)

\* the documents a version fetches
Fetched(v) == IF v = MapJsx THEN Docs ELSE {"centralwest"}

\* the fetch effects of a render: every fetched document's fetch() is called
IssueFetches ==
    /\ fetchState' = [d \in Docs |-> IF d \in Fetched(version) THEN "pending" ELSE fetchState[d]]
    /\ fetchCount' = [d \in Docs |-> IF d \in Fetched(version) THEN fetchCount[d] + 1 ELSE fetchCount[d]]

\* the effects of a re-render whose state is (al, gd, gld); settled is what
\* fetchState becomes when no fetch effect runs
Rerender(al, gd, gld, settled) ==
    /\ LegendEffect(al)
    /\ CommitLayer(al, gd, gld, mapRef)
    /\ IF FetchEffectHasDeps(version)
       THEN /\ fetchState' = settled
            /\ UNCHANGED fetchCount
       ELSE /\ fetchState' = [d \in Docs |-> IF d \in Fetched(version) THEN "pending" ELSE settled[d]]
            /\ fetchCount' = [d \in Docs |-> IF d \in Fetched(version) THEN fetchCount[d] + 1 ELSE fetchCount[d]]

\* the first render and its effects: both fetches start, and the legend
\* effect runs before MapContainer has created its map
Mount ==
    /\ phase = "unmounted"
    /\ phase' = "mounted"
    /\ IssueFetches
    /\ LegendEffect(activeLayer)
    /\ CommitLayer(activeLayer, geoData, geologicalData, mapRef)
    /\ UNCHANGED << version, geoData, geologicalData, activeLayer, mapRef, parsed,
                    errorLog, viewport >>
    /\ UNCHANGED pureVars

\* MapContainer creates the Leaflet map while the first render is committed,
\* stores it in mapRef.current and renders its children; the Map component
\* itself does not render again.  This happens in the task of the first
\* render: promise callbacks and user events run in later tasks, and so the
\* actions below wait for mapRef
MapReady ==
    /\ phase = "mounted"
    /\ ~mapRef
    /\ mapRef' = TRUE
    /\ CommitLayer(activeLayer, geoData, geologicalData, TRUE)
    /\ UNCHANGED << version, phase, geoData, geologicalData, activeLayer,
                    fetchState, fetchCount, parsed, errorLog,
                    controls, legendCleanup, legendSawMap, viewport >>
    /\ UNCHANGED pureVars

\* the centralwest fetch resolves with a JSON body: setGeoData(data)
FetchGeoDataOk ==
    /\ mapRef
    /\ fetchState["centralwest"] = "pending"
    /\ fetchCount["centralwest"] < MaxFetches
    /\ \E data \in Bodies("centralwest") :
          /\ parsed["centralwest"] \in {Undefined, data}
          /\ parsed' = [parsed EXCEPT !["centralwest"] = data]
          /\ geoData' = data
          /\ Rerender(activeLayer, data, geologicalData,
                      [fetchState EXCEPT !["centralwest"] = "loaded"])
    /\ UNCHANGED << version, phase, geologicalData, activeLayer, mapRef, errorLog, viewport >>
    /\ UNCHANGED pureVars

\* the geological fetch resolves with a JSON body: the handler runs, and
\* its exception, if any, reaches the catch
FetchGeologicalOk ==
    /\ mapRef
    /\ fetchState["geological"] = "pending"
    /\ \E data \in Bodies("geological") :
          /\ parsed' = [parsed EXCEPT !["geological"] = data]
          /\ IF GeologicalHandler(data).t = "throw"
             THEN /\ errorLog' = Append(errorLog, FailureMessage(version, "geological"))
                  /\ fetchState' = [fetchState EXCEPT !["geological"] = "failed"]
                  /\ UNCHANGED << geologicalData, fetchCount, controls, legendCleanup,
                                  legendSawMap, layerKey, layerStyle, hover >>
             ELSE /\ geologicalData' = GeologicalHandler(data)
                  /\ Rerender(activeLayer, geoData, GeologicalHandler(data),
                              [fetchState EXCEPT !["geological"] = "loaded"])
                  /\ UNCHANGED errorLog
    /\ UNCHANGED << version, phase, geoData, activeLayer, mapRef, viewport >>
    /\ UNCHANGED pureVars

\* a catch that logs and calls fetch again
FetchFailRetry(doc) ==
    /\ mapRef
    /\ fetchState[doc] = "pending"
    /\ fetchCount[doc] < MaxFetches
    /\ fetchCount' = [fetchCount EXCEPT ![doc] = @ + 1]
    /\ errorLog' = Append(errorLog, FailureMessage(version, doc))
    /\ UNCHANGED << version, phase, geoData, geologicalData, activeLayer, mapRef,
                    fetchState, parsed, controls, legendCleanup, legendSawMap,
                    layerKey, layerStyle, hover, viewport >>
    /\ UNCHANGED pureVars

\* a fetch rejects (network error) or res.json() rejects (non-JSON body):
\* the catch logs, no state is set, nothing renders again
FetchFail(doc) ==
    /\ mapRef
    /\ fetchState[doc] = "pending"
    /\ fetchState' = [fetchState EXCEPT ![doc] = "failed"]
    /\ errorLog' = Append(errorLog, FailureMessage(version, doc))
    /\ UNCHANGED << version, phase, geoData, geologicalData, activeLayer, mapRef,
                    fetchCount, parsed, controls, legendCleanup, legendSawMap,
                    layerKey, layerStyle, hover, viewport >>
    /\ UNCHANGED pureVars

\* a click on a toggle button: setActiveLayer(layer); setting the state to
\* the value it has renders nothing
SetActiveLayer(layer) ==
    /\ phase = "mounted"
    /\ mapRef
    /\ version = MapJsx
    /\ IF layer = activeLayer
       THEN UNCHANGED << activeLayer, fetchState, fetchCount, controls, legendCleanup,
                         legendSawMap, layerKey, layerStyle, hover >>
       ELSE /\ activeLayer' = layer
            /\ Rerender(layer, geoData, geologicalData, fetchState)
    /\ UNCHANGED << version, phase, geoData, geologicalData, mapRef, parsed,
                    errorLog, viewport >>
    /\ UNCHANGED pureVars

\* Path.setStyle(style): the given options replace the path's, the others stay
SetStyle(options, style) ==
    [k \in DOMAIN options |-> IF k \in DOMAIN style THEN style[k] ELSE options[k]]

\* no version registers a handler Leaflet calls on mouseover
HandlesMouseoverNever(v) == FALSE

\* the handlers layer.on({...}) registers under the event names Leaflet
\* fires: the second version registers its hover handler as "mouserover"
HandlesMouseover(v) == v = MapJsx

\* the pointer enters rendered feature i
MouseOver(i) ==
    /\ HasHandlers(version)
    /\ layerKey # "none"
    /\ i \in 1..Len(layerStyle)
    /\ hover = 0
    /\ hover' = i
    /\ layerStyle' = IF HandlesMouseover(version)
                     THEN [layerStyle EXCEPT ![i] = SetStyle(@, [weight |-> 3])]
                     ELSE layerStyle
    /\ UNCHANGED << version, phase, geoData, geologicalData, activeLayer, mapRef,
                    fetchState, fetchCount, parsed, errorLog, controls, legendCleanup,
                    legendSawMap, layerKey, viewport >>
    /\ UNCHANGED pureVars

\* the pointer leaves rendered feature i
MouseOut(i) ==
    /\ HasHandlers(version)
    /\ layerKey # "none"
    /\ i \in 1..Len(layerStyle)
    /\ hover = i
    /\ hover' = 0
    /\ layerStyle' = [layerStyle EXCEPT ![i] =
                        SetStyle(@, StyleResolver(version, layerKey,
                                     LayerFeatures(layerKey, geoData, geologicalData)[i]))]
    /\ UNCHANGED << version, phase, geoData, geologicalData, activeLayer, mapRef,
                    fetchState, fetchCount, parsed, errorLog, controls, legendCleanup,
                    legendSawMap, layerKey, viewport >>
    /\ UNCHANGED pureVars

\* a click on rendered feature i: mapRef.current.fitBounds(layer.getBounds(), ...)
Click(i) ==
    /\ HasHandlers(version)
    /\ layerKey # "none"
    /\ i \in 1..Len(layerStyle)
    /\ mapRef
    /\ viewport' = [target |-> i, padding |-> << 20, 20 >>]
    /\ UNCHANGED << version, phase, geoData, geologicalData, activeLayer, mapRef,
                    fetchState, fetchCount, parsed, errorLog, controls, legendCleanup,
                    legendSawMap, layerKey, layerStyle, hover >>
    /\ UNCHANGED pureVars

Next ==
    \/ Mount
    \/ MapReady
    \/ FetchGeoDataOk
    \/ FetchGeologicalOk
    \/ \E doc \in Docs : FetchFail(doc)
    \/ \E layer \in {"clusters", "geological"} : SetActiveLayer(layer)
    \/ \E i \in 1..MaxFeatures : MouseOver(i)
    \/ \E i \in 1..MaxFeatures : MouseOut(i)
    \/ \E i \in 1..MaxFeatures : Click(i)

Spec == Init /\ [][Next]_vars

\* what the event loop guarantees: the first render happens, MapContainer
\* creates its map, and each fetch promise settles one way or the other; the
\* user may never touch the page
Progress ==
    /\ WF_vars(Mount)
    /\ WF_vars(MapReady)
    /\ WF_vars(FetchGeoDataOk \/ FetchFail("centralwest"))
    /\ WF_vars(FetchGeologicalOk \/ FetchFail("geological"))

FairSpec == Spec /\ Progress

-----------------------------------------------------------------------------
(* The two versions of part_000 *)

InitPart000 ==
    /\ version \in {FirstVersion, SecondVersion}
    /\ Unmounted
    /\ PureIdle

NextPart000 ==
    \/ Mount
    \/ MapReady
    \/ FetchGeoDataOk
    \/ FetchFail("centralwest")
    \/ \E i \in 1..MaxFeatures : MouseOver(i)
    \/ \E i \in 1..MaxFeatures : MouseOut(i)
    \/ \E i \in 1..MaxFeatures : Click(i)

SpecPart000 == InitPart000 /\ [][NextPart000]_vars

-----------------------------------------------------------------------------
(* The classifiers and the style resolvers on their own *)

\* values a GeoJSON export may hold under a property key
ClusterValues == {Undefined, Null, Str(""), Str("Kakamega")}
ClNameValues == {Undefined, Str("Vihiga")}
MilestoneValues ==
    {Undefined, Null, Str(""), Str("2"), Str("two")} \cup {Num(m) : m \in 0..MaxMilestone}
LithCodeValues ==
    {Undefined, Null, Str(""), Str("XYZ"), Str("toString")}
        \cup {Str(geologicalColors[i].key) : i \in 1..Len(geologicalColors)}
UnitValues == {Undefined, Str(""), Str("Basement")}

Features ==
    {Null, Undefined, Feature(Undefined, Undefined), Feature(Null, Undefined)}
        \cup {Feature(Bag(c, n, m, Undefined, Undefined), Undefined) :
                 c \in ClusterValues, n \in ClNameValues, m \in MilestoneValues}
        \cup {Feature(Bag(Undefined, Undefined, Undefined, l, u), Undefined) :
                 l \in LithCodeValues, u \in UnitValues}

InitStyle ==
    /\ version = MapJsx
    /\ Unmounted
    /\ pc = "input"
    /\ inFeature \in Features
    /\ outStyle = Undefined
    /\ outClass = Undefined
    /\ inCoords = Undefined
    /\ outCoords = Undefined

\* the classifiers and both style resolvers applied to the feature
Classify ==
    /\ pc = "input"
    /\ pc' = "done"
    /\ outClass' = [clusterName |-> getClusterName(inFeature),
                    milestone |-> getMilestone(inFeature),
                    lithCode |-> getLithCode(inFeature),
                    unit |-> getGeologicalUnit(inFeature)]
    /\ outStyle' = [clusters |-> geojsonColors(inFeature),
                    geological |-> geologicalLayerColors(inFeature)]
    /\ UNCHANGED << inFeature, inCoords, outCoords >>
    /\ UNCHANGED compVars

NextStyle == Classify

SpecStyle == InitStyle /\ [][NextStyle]_vars

-----------------------------------------------------------------------------
(* The reprojector on its own *)

\* the number of positions of a coordinate structure
RECURSIVE CountPairs(_)
CountPairs(c) ==
    IF c.t # "array" THEN 0
    ELSE IF Len(c.a) > 0 /\ c.a[1].t = "number" THEN 1
    ELSE IF Len(c.a) = 0 THEN 0
    ELSE CountPairs(Head(c.a)) + CountPairs(Arr(Tail(c.a)))

\* coordinate structures of every GeoJSON depth: 0 a position, 1 a ring,
\* 2 a polygon, 3 a multi-polygon, with up to MaxKids children per array and
\* up to budget positions in all; the position at child path c1, c2, ...
\* holds coordinates derived from the path, so that no two positions of a
\* structure are equal
RECURSIVE CoordTrees(_, _, _)
RECURSIVE KidSeqs(_, _, _, _, _)
KidSeqs(d, code, i, k, budget) ==
    IF i > k THEN {<< >>}
    ELSE UNION {{<< t >> \o rest : rest \in KidSeqs(d, code, i + 1, k, budget - CountPairs(t))} :
                   t \in CoordTrees(d - 1, code * (MaxKids + 1) + i, budget)}
CoordTrees(d, code, budget) ==
    IF d = 0
    THEN IF budget > 0 THEN {Pt(FalseEasting + code, FalseNorthing + 2 * code)} ELSE {}
    ELSE {Arr(kids) : kids \in UNION {KidSeqs(d, code, 1, k, budget) : k \in 0..MaxKids}}

GeometryDepths == {0, 1, 2, 3}

InitReproject ==
    /\ version = MapJsx
    /\ Unmounted
    /\ pc = "input"
    /\ inFeature = Undefined
    /\ outStyle = Undefined
    /\ outClass = Undefined
    /\ inCoords \in UNION {CoordTrees(d, 0, MaxPairs) : d \in GeometryDepths}
    /\ outCoords = Undefined

Reproject ==
    /\ pc = "input"
    /\ pc' = "done"
    /\ outCoords' = transformCoordinates(inCoords)
    /\ UNCHANGED << inFeature, outStyle, outClass, inCoords >>
    /\ UNCHANGED compVars

NextReproject == Reproject

SpecReproject == InitReproject /\ [][NextReproject]_vars

-----------------------------------------------------------------------------
(* Properties of the legend (Spec) *)

TableOf(layer) == IF layer = "clusters" THEN milestoneColors ELSE geologicalColors

\* control c shows every entry of the table of layer, in the table's order
ShowsTable(c, layer) ==
    /\ Len(c.entries) = Len(TableOf(layer))
    /\ \A i \in 1..Len(TableOf(layer)) :
          /\ c.entries[i].color = TableOf(layer)[i].color
          /\ c.entries[i].label = TableOf(layer)[i].label

\* C1: in Map.jsx, once the legend effect has run with the map instance
\* available, exactly one legend control is attached to the map, it shows the
\* full table of the current ActiveLayer, and at no time is there a second
\* control or a control that the effect's cleanup does not remove.
C1_OneLegendOfActiveLayer ==
    /\ Cardinality(controls) <= 1
    /\ \A c \in controls : c.id = legendCleanup
    /\ legendSawMap =>
          /\ Cardinality(controls) = 1
          /\ \A c \in controls : ShowsTable(c, activeLayer)

\* both fetches failed, so only toggles have rendered: the layer was toggled
\* to "geological" and back to "clusters" with the map available
C1_Witness ==
    /\ legendSawMap
    /\ fetchState = [d \in Docs |-> "failed"]
    /\ activeLayer = "clusters"
    /\ Cardinality(controls) = 1

\* C10: in Map.jsx, once the component is mounted and the map instance is
\* available, a legend control of the current ActiveLayer is eventually
\* attached, in every execution.
C10_LegendEventuallyAttached ==
    (phase = "mounted" /\ mapRef) ~> (\E c \in controls : ShowsTable(c, activeLayer))

-----------------------------------------------------------------------------
(* Properties of the loaders (Spec, SpecPart000) *)

DataOf(doc) == IF doc = "centralwest" THEN geoData ELSE geologicalData
LayerOf(doc) == IF doc = "centralwest" THEN "clusters" ELSE "geological"
Logged(doc) ==
    \E i \in 1..Len(errorLog) :
       errorLog[i] = (IF doc = "centralwest" THEN "Failed to load centralwest GeoJSON"
                                             ELSE "Failed to load geological GeoJSON")

\* a feature without geometry or coordinates, or with well-nested Polygon or
\* MultiPolygon coordinates
RECURSIVE NestedTo(_, _)
NestedTo(c, depth) ==
    /\ c.t = "array"
    /\ IF depth = 0
       THEN Len(c.a) = 2 /\ \A i \in 1..2 : c.a[i].t = "number"
       ELSE \A i \in 1..Len(c.a) : NestedTo(c.a[i], depth - 1)
Permissible(feature) ==
    /\ feature.t = "object"
    /\ \/ feature.geometry = Undefined
       \/ feature.geometry.coordinates = Undefined
       \/ feature.geometry.type = Str("Polygon") /\ NestedTo(feature.geometry.coordinates, 2)
       \/ feature.geometry.type = Str("MultiPolygon") /\ NestedTo(feature.geometry.coordinates, 3)
PermissibleCollection(data) ==
    /\ data.features.t = "array"
    /\ \A i \in 1..Len(data.features.a) : Permissible(data.features.a[i])

\* the collection in which the features with coordinates are reprojected
\* and the others are passed through
Reprojected(data) ==
    Collection(Arr([i \in 1..Len(data.features.a) |->
        LET f == data.features.a[i]
        IN  IF f.geometry # Undefined /\ f.geometry.coordinates # Undefined
            THEN [f EXCEPT !.geometry.coordinates = transformCoordinates(@)]
            ELSE f]))

\* C6: when the geological document was fetched and parsed and each of its
\* features lacks geometry or coordinates or carries well-nested Polygon or
\* MultiPolygon coordinates, the load ends with geologicalData set to the
\* collection with the coordinates reprojected and the other features kept.
C6_PermissiveLoad ==
    (parsed["geological"] # Undefined /\ PermissibleCollection(parsed["geological"]))
        => geologicalData = Reprojected(parsed["geological"])

\* C7: in Map.jsx a failed fetch is logged, the failed document's
\* FeatureCollection stays null and its layer is never rendered, fetch is not
\* called again, and the other document, once loaded, is stored and rendered
\* when its layer is active, whichever fetch settles first.
C7_FailureIsolated ==
    \A d \in Docs :
       /\ fetchState[d] = "failed" <=> Logged(d)
       /\ Logged(d) =>
             /\ DataOf(d) = Null
             /\ layerKey # LayerOf(d)
             /\ fetchCount[d] = 1
       /\ \A o \in Docs \ {d} :
             fetchState[o] = "loaded" =>
                /\ DataOf(o) = (IF o = "centralwest" THEN parsed[o] ELSE transformGeoJSON(parsed[o]))
                /\ (mapRef /\ activeLayer = LayerOf(o)) => layerKey = LayerOf(o)
                /\ fetchCount[o] = 1

\* the centralwest fetch failed, the geological one loaded afterwards and
\* its layer is rendered
C7_Witness ==
    /\ Logged("centralwest")
    /\ fetchState["geological"] = "loaded"
    /\ layerKey = "geological"
    /\ Len(layerStyle) > 0

\* C8: in every version of the component each document is fetched at most
\* once per mounted session: no render after the first calls fetch again.
C8_FetchedOnce ==
    \A d \in Docs : fetchCount[d] <= 1

-----------------------------------------------------------------------------
(* Properties of the interaction handlers (Spec) *)

\* the Style Resolver's value for feature i of the layer with key k
Resolved(k, gd, gld, i) ==
    IF k = "clusters" THEN geojsonColors(gd.features.a[i])
    ELSE geologicalLayerColors(gld.features.a[i])

\* the hovered feature h has weight 3 and otherwise the resolver's style;
\* every other rendered feature has the resolver's style
HoverStyles(styles, h, k, gd, gld) ==
    \A i \in 1..Len(styles) :
       styles[i] = IF i = h THEN [Resolved(k, gd, gld, i) EXCEPT !.weight = 3]
                   ELSE Resolved(k, gd, gld, i)

-----------------------------------------------------------------------------
(* Properties of the classifiers and the style resolvers (SpecStyle) *)

\* the property bag the feature carries, the empty bag when it carries none
Carried(feature) ==
    IF feature.t = "object" /\ feature.properties.t = "object"
    THEN feature.properties ELSE EmptyBag

Present(v) == v # Undefined

Colors(table) == {Str(table[i].color) : i \in 1..Len(table)}

\* the colour of the entry of table under key k, or of the entry under the
\* key "default" when the table has no entry under k
KeyedOrDefault(table, k, fill) ==
    IF \E i \in 1..Len(table) : table[i].key = k
    THEN \E i \in 1..Len(table) : table[i].key = k /\ fill = Str(table[i].color)
    ELSE \E i \in 1..Len(table) : table[i].key = "default" /\ fill = Str(table[i].color)

\* C2 as stated: on both layers the fill colour is the colour of the table
\* entry keyed by the feature's Classification, or of the table's default
\* entry, and so always a colour of the layer's table.
C2_FillFromTable ==
    pc = "done" =>
       /\ KeyedOrDefault(milestoneColors, PropertyKey(outClass.milestone), outStyle.clusters.fillColor)
       /\ KeyedOrDefault(geologicalColors, PropertyKey(outClass.lithCode), outStyle.geological.fillColor)
       /\ outStyle.clusters.fillColor \in Colors(milestoneColors)
       /\ outStyle.geological.fillColor \in Colors(geologicalColors)

\* C2 as amended: a geological fill colour is the colour of the entry keyed
\* by the lithology code or of the "default" entry; a cluster fill colour is
\* the colour of the entry keyed by the milestone when the table has one,
\* and otherwise the gray "#374151", which is no colour of the table.
C2_FillFromTableOrGray ==
    pc = "done" =>
       /\ KeyedOrDefault(geologicalColors, PropertyKey(outClass.lithCode), outStyle.geological.fillColor)
       /\ outStyle.geological.fillColor \in Colors(geologicalColors)
       /\ IF \E i \in 1..Len(milestoneColors) : milestoneColors[i].key = PropertyKey(outClass.milestone)
          THEN KeyedOrDefault(milestoneColors, PropertyKey(outClass.milestone), outStyle.clusters.fillColor)
          ELSE /\ outStyle.clusters.fillColor = Str("#374151")
               /\ outStyle.clusters.fillColor \notin Colors(milestoneColors)

\* a feature whose milestone the table does not know was resolved
C2_Witness ==
    /\ pc = "done"
    /\ outClass.milestone = Num(MaxMilestone)
    /\ outStyle.clusters.fillColor = Str("#374151")

\* C3: for every feature, null and property-less ones included, both
\* resolvers return stroke "#000", weight 2, fill opacity 0.7 and a fill
\* colour that is a non-empty string; {Milestone: 2} gives "#27823B", an
\* unrecognised LITHCODE gives "#118AB2", an unrecognised milestone "#374151".
C3_ResolverTotal ==
    pc = "done" =>
       /\ \A l \in {"clusters", "geological"} :
             /\ outStyle[l].color = "#000"
             /\ outStyle[l].weight = 2
             /\ outStyle[l].fillOpacity = 7
             /\ outStyle[l].fillColor.t = "string"
             /\ outStyle[l].fillColor.s # ""
       /\ Carried(inFeature).Milestone = Num(2) => outStyle.clusters.fillColor = Str("#27823B")
       /\ Carried(inFeature).LITHCODE = Str("XYZ") => outStyle.geological.fillColor = Str("#118AB2")
       /\ Carried(inFeature).Milestone \in {Num(MaxMilestone), Str("two")} =>
             outStyle.clusters.fillColor = Str("#374151")
       /\ inFeature \in {Null, Undefined} =>
             /\ outStyle.clusters.fillColor = Str("#BCCFB4")
             /\ outStyle.geological.fillColor = Str("#118AB2")

\* the null feature was resolved
C3_Witness ==
    /\ pc = "done"
    /\ inFeature = Null
    /\ outStyle.geological.fillColor = Str("#118AB2")

\* C4 as stated: each classifier returns the value under its canonical key
\* when the key is present, otherwise the value under the alternate key when
\* that is present, otherwise its sentinel.
C4_CanonicalWhenPresent ==
    pc = "done" =>
       LET b == Carried(inFeature)
       IN  /\ outClass.clusterName =
                  (IF Present(b.Cluster) THEN b.Cluster
                   ELSE IF Present(b.clName) THEN b.clName ELSE Str("Unknown"))
           /\ outClass.milestone = (IF Present(b.Milestone) THEN b.Milestone ELSE Num(0))
           /\ outClass.lithCode = (IF Present(b.LITHCODE) THEN b.LITHCODE ELSE Str("default"))
           /\ outClass.unit = (IF Present(b.UNIT) THEN b.UNIT ELSE Str("Unknown"))

\* C4 as amended: no classifier throws; getClusterName, getLithCode and
\* getGeologicalUnit return the value under the canonical key when it is
\* truthy, getClusterName otherwise the value under " cl name" when that is
\* truthy, and otherwise the sentinel; getMilestone returns Number(value)
\* of the value under Milestone unless it is absent or null, and then 0.
C4_CanonicalWhenTruthy ==
    pc = "done" =>
       LET b == Carried(inFeature)
       IN  /\ \A k \in DOMAIN outClass : outClass[k].t # "throw"
           /\ outClass.clusterName =
                  (IF Truthy(b.Cluster) THEN b.Cluster
                   ELSE IF Truthy(b.clName) THEN b.clName ELSE Str("Unknown"))
           /\ outClass.milestone =
                  (IF b.Milestone \in {Undefined, Null} THEN Num(0)
                   ELSE IF b.Milestone.t = "number" THEN b.Milestone
                   ELSE IF b.Milestone \in {Str(""), Str("0")} THEN Num(0)
                   ELSE IF b.Milestone = Str("2") THEN Num(2)
                   ELSE NaN)
           /\ outClass.lithCode = (IF Truthy(b.LITHCODE) THEN b.LITHCODE ELSE Str("default"))
           /\ outClass.unit = (IF Truthy(b.UNIT) THEN b.UNIT ELSE Str("Unknown"))

\* a bag without Cluster but with " cl name" was classified
C4_Witness ==
    /\ pc = "done"
    /\ inFeature.t = "object"
    /\ Carried(inFeature).Cluster = Undefined
    /\ Carried(inFeature).clName = Str("Vihiga")
    /\ outClass.clusterName = Str("Vihiga")

-----------------------------------------------------------------------------
(* Properties of the reprojector (SpecReproject) *)

\* a pair of two numbers
IsPair(c) == c.t = "array" /\ Len(c.a) = 2 /\ c.a[1].t = "number" /\ c.a[2].t = "number"

\* the child paths of the pairs of a structure
RECURSIVE PairPaths(_)
PairPaths(c) ==
    IF IsPair(c) THEN {<< >>}
    ELSE IF c.t # "array" THEN {}
    ELSE UNION {{<< i >> \o p : p \in PairPaths(c.a[i])} : i \in 1..Len(c.a)}

\* the node of a structure at a child path
RECURSIVE NodeAt(_, _)
NodeAt(c, path) == IF path = << >> THEN c ELSE NodeAt(c.a[Head(path)], Tail(path))

\* the child paths of all arrays of a structure that are not pairs, each
\* with its number of children
RECURSIVE ArrayWidths(_)
ArrayWidths(c) ==
    IF IsPair(c) \/ c.t # "array" THEN {}
    ELSE {<< << >>, Len(c.a) >>}
         \cup UNION {{<< << i >> \o w[1], w[2] >> : w \in ArrayWidths(c.a[i])} : i \in 1..Len(c.a)}

\* C5: the result of transformCoordinates has the nesting shape of its
\* input, with as many children at every level, and the pair at each
\* position is the projection of the input pair at that position and of no
\* input pair at another position.
C5_ShapeAndOrderPreserved ==
    pc = "done" =>
       /\ outCoords.t # "throw"
       /\ ArrayWidths(outCoords) = ArrayWidths(inCoords)
       /\ PairPaths(outCoords) = PairPaths(inCoords)
       /\ \A p \in PairPaths(inCoords) :
             /\ NodeAt(outCoords, p).a = proj4(NodeAt(inCoords, p))
             /\ \A q \in PairPaths(inCoords) \ {p} :
                   NodeAt(outCoords, p).a # proj4(NodeAt(inCoords, q))

\* a multi-polygon with two polygons, the first with two rings, reprojected
C5_Witness ==
    /\ pc = "done"
    /\ << 1, 2, 1 >> \in PairPaths(inCoords)
    /\ << 2, 1, 2 >> \in PairPaths(outCoords)

=============================================================================
